---- MODULE Spec2Model ----
(***************************************************************************)
(* Model of the subtitle scraper: the per-listing script (src/index.js)    *)
(* and the per-chunk script (src/unnamed/part_000).  Both share            *)
(* getEnglishSubtitleLink, startDownload, downloadSubtitles and            *)
(* extractSubtitles; they differ in MAX_MOVIES, in the listing loop of     *)
(* getMoviesList and in the records they emit.                             *)
(*                                                                         *)
(* A text is a sequence of characters, each character a one-character      *)
(* string; "LS" stands for the line separator U+2028.                      *)
(***************************************************************************)
EXTENDS Integers, Sequences, FiniteSets, TLC

\* ------------------------------------------------------------------ values

\* JavaScript null.  A null link is the string "null"; a null text is NullText,
\* which no text equals (every character of a text is one character long); a
\* null list of windows or of records is NoMatch / NullList.
Null == "null"
NullText == <<"null">>
NoMatch == << <<"null">> >>
NullList == <<[null |-> TRUE]>>

Min(S) == CHOOSE x \in S : \A y \in S : x <= y
Max(S) == CHOOSE x \in S : \A y \in S : x >= y

\* A text of n copies of the character c.
Rep(c, n) == [k \in 1..n |-> c]

\* ------------------------------------------------------ text: chunking

\* The window length of .match(/.{1,102}/g).
ChunkSize == 102

\* JavaScript white space (\s, String.prototype.trim) over the alphabet used.
IsSpace(c) == c \in {" ", "\t", "\n", "\r", "LS"}

\* What "." matches: anything but a line terminator.
Dot(c) == c \notin {"\n", "\r", "LS"}

\* Last position of the longest match of .{1,102} that starts at p (Dot(t[p])):
\* it stops before the first character "." does not match, after 102
\* characters, or at the end of t.
RunEnd(t, p) ==
  LET hi == Min({Len(t), p + ChunkSize - 1})
  IN Min({q \in p..hi : ~Dot(t[q])} \cup {hi + 1}) - 1

\* The first position from p on that "." matches (Len(t) + 1 when none).
NextDot(t, p) == Min({q \in p..Len(t) : Dot(t[q])} \cup {Len(t) + 1})

\* The matches of /.{1,102}/g scanning t from position p, left to right: the
\* scan skips what "." does not match and then takes the longest match.
RECURSIVE MatchFrom(_, _)
MatchFrom(t, p) ==
  LET b == NextDot(t, p)
  IN IF b > Len(t) THEN <<>>
     ELSE <<SubSeq(t, b, RunEnd(t, b))>> \o MatchFrom(t, RunEnd(t, b) + 1)

\* String.prototype.match with a global regex: null when nothing matches.
MatchChunks(t) ==
  LET w == MatchFrom(t, 1) IN IF w = <<>> THEN NoMatch ELSE w

\* A plausible slip: only leading white space is removed (trimStart).
TrimStart(s) ==
  LET keep == {k \in 1..Len(s) : ~IsSpace(s[k])}
  IN IF keep = {} THEN <<>> ELSE SubSeq(s, Min(keep), Len(s))

\* String.prototype.trim
Trim(s) ==
  LET keep == {k \in 1..Len(s) : ~IsSpace(s[k])}
  IN IF keep = {} THEN <<>> ELSE SubSeq(s, Min(keep), Max(keep))

\* The decimal digits of a natural number, as a template literal writes it.
DigitChars == <<"0", "1", "2", "3", "4", "5", "6", "7", "8", "9">>

RECURSIVE Decimal(_)
Decimal(n) ==
  IF n < 10 THEN <<DigitChars[n + 1]>>
  ELSE Decimal(n \div 10) \o <<DigitChars[(n % 10) + 1]>>

\* `part ${index + 1}` for the window at position k (index = k - 1).
PartLabel(k) == <<"p", "a", "r", "t", " ">> \o Decimal(k)

\* A plausible slip: the parts are numbered from 0.
MovieSubtitlesFromZero(name, windows) ==
  [k \in 1..Len(windows) |->
     [name |-> name, subtitle |-> Trim(windows[k]), part |-> PartLabel(k - 1)]]

\* subtitleChunks.map(...): one record per window, parts numbered from 1.
MovieSubtitles(name, windows) ==
  [k \in 1..Len(windows) |->
     [name |-> name, subtitle |-> Trim(windows[k]), part |-> PartLabel(k)]]

\* ------------------------------------------------- text: normalization

IsNL(c) == c \in {"\n", "\r"}

Digit(c) == c \in {"0", "1", "2", "3", "4", "5", "6", "7", "8", "9"}

\* .replace(/[\n\r]+/g, " "): every maximal run of \n and \r becomes one space.
\* What position p of t contributes: itself, one space for the first
\* character of a run, nothing for the rest of a run.
CollapsePiece(t, p) ==
  IF ~IsNL(t[p]) THEN <<t[p]>>
  ELSE IF p > 1 /\ IsNL(t[p - 1]) THEN <<>>
  ELSE <<" ">>

\* The pieces of positions lo..hi, in order.
RECURSIVE CollapseRange(_, _, _)
CollapseRange(t, lo, hi) ==
  IF lo > hi THEN <<>>
  ELSE IF lo = hi THEN CollapsePiece(t, lo)
  ELSE LET mid == (lo + hi) \div 2
       IN CollapseRange(t, lo, mid) \o CollapseRange(t, mid + 1, hi)

CollapseNewlines(t) == CollapseRange(t, 1, Len(t))

\* Pieces of the regular expression.  Each gives the position after the piece
\* matched at p, or 0 when it does not match there (0 is passed on).
AfterDigits(t, p) ==
  IF p = 0 \/ p > Len(t) \/ ~Digit(t[p]) THEN 0
  ELSE Min({q \in (p + 1)..(Len(t) + 1) : q = Len(t) + 1 \/ ~Digit(t[q])})

AfterSpace(t, p) ==
  IF p = 0 \/ p > Len(t) \/ ~IsSpace(t[p]) THEN 0 ELSE p + 1

AfterLit(t, p, lit) ==
  IF p = 0 \/ p + Len(lit) - 1 > Len(t) THEN 0
  ELSE IF SubSeq(t, p, p + Len(lit) - 1) = lit THEN p + Len(lit) ELSE 0

\* \d+:\d+:\d+,\d+
AfterTime(t, p) ==
  AfterDigits(t, AfterLit(t, AfterDigits(t, AfterLit(t, AfterDigits(t,
    AfterLit(t, AfterDigits(t, p), <<":">>)), <<":">>)), <<",">>))

\* \d+\s\d+:\d+:\d+,\d+\s-->\s\d+:\d+:\d+,\d+\s
AfterCue(t, p) ==
  AfterSpace(t, AfterTime(t, AfterSpace(t, AfterLit(t, AfterSpace(t,
    AfterTime(t, AfterSpace(t, AfterDigits(t, p)))), <<"-", "-", ">">>))))

\* \s?<i>  (the optional space is tried first)
AfterOpenTag(t, p) ==
  LET withSpace == AfterLit(t, AfterSpace(t, p), <<"<", "i", ">">>)
  IN IF withSpace # 0 THEN withSpace ELSE AfterLit(t, p, <<"<", "i", ">">>)

\* <\/i>\s?
AfterCloseTag(t, p) ==
  LET q == AfterLit(t, p, <<"<", "/", "i", ">">>)
  IN IF q # 0 /\ AfterSpace(t, q) # 0 THEN AfterSpace(t, q) ELSE q

\* The alternatives in order, at position p.
AfterMarkup(t, p) ==
  IF AfterCue(t, p) # 0 THEN AfterCue(t, p)
  ELSE IF AfterOpenTag(t, p) # 0 THEN AfterOpenTag(t, p)
  ELSE AfterCloseTag(t, p)

\* The first position from p on where the expression matches (Len(t) + 1 when
\* none).
NextMarkup(t, p) ==
  Min({q \in p..Len(t) : AfterMarkup(t, q) # 0} \cup {Len(t) + 1})

\* .replace(/...|\s?<i>|<\/i>\s?/g, ""): one left-to-right pass; what lies
\* before the next match is kept, the match is dropped, the scan goes on
\* after it.
RECURSIVE RemoveFrom(_, _)
RemoveFrom(t, p) ==
  LET q == NextMarkup(t, p)
  IN IF q > Len(t) THEN SubSeq(t, p, Len(t))
     ELSE SubSeq(t, p, q - 1) \o RemoveFrom(t, AfterMarkup(t, q))

RemoveMarkup(t) == RemoveFrom(t, 1)

\* The two replaces applied to downloadData.
Normalize(t) == RemoveMarkup(CollapseNewlines(t))

\* ------------------------------------------------------------ resolver

English == <<"E", "n", "g", "l", "i", "s", "h">>

\* The page has no ".table.other-subs tbody": newPage.$ gives null.
NoTable == << [label |-> <<"null">>, href |-> Null] >>

\* A plausible slip: the loop does not stop at the first match.
LastEnglish(rows, k) ==
  LET M == {j \in k..Len(rows) : Trim(rows[j].label) = English}
  IN IF M = {} THEN Null ELSE rows[Max(M)].href

\* The loop of getEnglishSubtitleLink over the rows of the table: the href of
\* the first row whose trimmed label is "English", else null.
RECURSIVE FirstEnglish(_, _)
FirstEnglish(rows, k) ==
  IF k > Len(rows) THEN Null
  ELSE IF Trim(rows[k].label) = English THEN rows[k].href
  ELSE FirstEnglish(rows, k + 1)

GetEnglishSubtitleLink(rows) == FirstEnglish(rows, 1)

\* ---------------------------------------------------------- extraction

\* No file at the expected staging path.
NoFile == << [entryName |-> <<"null">>, data |-> NullText] >>

\* The promise of extractSubtitles was rejected.
Rejected == <<"rejected">>

EndsWith(s, suffix) ==
  /\ Len(s) >= Len(suffix)
  /\ SubSeq(s, Len(s) - Len(suffix) + 1, Len(s)) = suffix

SrtEntries(entries) ==
  {k \in 1..Len(entries) : EndsWith(entries[k].entryName, <<".", "s", "r", "t">>)}

\* A plausible slip: the entry loop has no break, the last match wins.
ExtractLastSrt(file) ==
  IF file = NoFile THEN Rejected
  ELSE IF SrtEntries(file) = {} THEN Rejected
  ELSE file[Max(SrtEntries(file))].data

\* extractSubtitles on the file at the staging path: new AdmZip throws on a
\* missing file; otherwise the data of the first entry named *.srt, or a
\* rejection when there is none.
ExtractSubtitles(file) ==
  IF file = NoFile THEN Rejected
  ELSE IF SrtEntries(file) = {} THEN Rejected
  ELSE file[Min(SrtEntries(file))].data

\* await extractSubtitles(...) inside the try/catch of startDownload.
TryExtract(file) ==
  IF ExtractSubtitles(file) = Rejected THEN NullText ELSE ExtractSubtitles(file)

\* ------------------------------------------------------- the scripts

\* MAX_MOVIES of src/index.js and of src/unnamed/part_000.
MaxMoviesIndex == 10
MaxMoviesChunk == 2

\* Bounds of the model.
MaxPageLen == 2
MaxRuns == 2
MaxCount == 2
MaxOpen == 2

Variants == {"index", "part_000"}

\* ------------------------------------------------- the site (inputs)

\* One subtitle cue header: number, time codes, line break.
Cue ==
  <<"1", "\n", "0", "0", ":", "0", "0", ":", "0", "1", ",", "0", "0", "0", " ", "-", "-", ">", " ", "0", "0", ":", "0", "0", ":", "0", "2", ",", "0", "0", "0", "\n">>

DocShort == Cue \o <<"H", "i", "\n">>
DocLong == Cue \o Rep("a", ChunkSize - 1) \o <<"\n">> \o Rep("b", ChunkSize + 1) \o <<"\n">>
DocBlank == <<"\n">>
DocCueOnly == Cue
DocEmpty == <<>>

NfoName == <<"i", ".", "n", "f", "o">>
SrtName == <<"m", ".", "s", "r", "t">>
TxtName == <<"r", ".", "t", "x", "t">>

ArchiveOf(doc) ==
  << [entryName |-> NfoName, data |-> <<"x">>],
     [entryName |-> SrtName, data |-> doc],
     [entryName |-> TxtName, data |-> <<"y">>] >>

ArchiveNoSrt ==
  << [entryName |-> NfoName, data |-> <<"x">>],
     [entryName |-> TxtName, data |-> <<"y">>] >>

\* What the site can serve, per script (the per-listing script, whose cap is
\* 10, is run against a narrower site).
Urls(v) == IF v = "index" THEN {"u1"} ELSE {"u1", "u2"}
AllUrls == {"u1", "u2"}

Docs(v) ==
  IF v = "index" THEN {DocShort}
  ELSE {DocShort, DocLong, DocBlank, DocCueOnly, DocEmpty}

Archives(v) == {ArchiveOf(d) : d \in Docs(v)} \cup {ArchiveNoSrt}

Names(v) == IF v = "index" THEN {"m1"} ELSE {"m1", ""}
Links == {"d1", ""}

French == <<"F", "r">>
Row(label, href) == [label |-> label, href |-> href]

Tables(v) ==
  {NoTable, <<>>, <<Row(French, "u1")>>}
  \cup {<<Row(French, "u1"), Row(<<" ">> \o English \o <<"\n">>, u)>> : u \in Urls(v)}

\* ---------------------------------------------------------------- state

VARIABLES
  variant,       \* the script that runs: "index" or "part_000"
  run,           \* number of the current run of the script
  pc,            \* where the run is
  fault,         \* the error that ended the run ("" while none)
  page_i,        \* scrapeMovies: i, the page number
  startIndex,    \* scrapeMovies: startIndex
  movieCount,    \* scrapeMovies: movieCount
  movies,        \* scrapeMovies: movies
  moviesList,    \* scrapeMovies: moviesList, what getMoviesList returned
  output,        \* the array handed to writeMoviesToCsv (NullList until then)
  browserClosed, \* browser.close() was called
  fetched,       \* listing pages fetched in this run
  emptySeen,     \* a fetched listing page had no listing element
  succeeded,     \* listings of this run whose records were pushed
  movieList,     \* getMoviesList: movieList.length
  list_i,        \* getMoviesList: i
  movieIndex,    \* getMoviesList: movieIndex
  pageMovies,    \* getMoviesList: movies
  movieName,     \* getMoviesList: movieName
  movieLink,     \* getMoviesList: movieLink
  subtitleLink,  \* getMoviesList: subtitleLink
  downloadData,  \* getMoviesList: downloadData
  disk,          \* per archive URL, the file subtitles/<name>/<name>.zip
  inflight,      \* per archive URL, a transfer started by the browser is running
  downloads,     \* per archive URL, invocations of downloadSubtitles (capped)
  mkdirFailed,   \* fs.mkdirSync threw in this run
  openPages,     \* pages opened for a listing that nothing will close (capped)
  arg,           \* the input of a function checked on its own
  res,           \* its result
  applied        \* the function that was applied ("" before)

scriptVars ==
  <<variant, run, pc, fault, page_i, startIndex, movieCount, movies, moviesList,
    output, browserClosed, fetched, emptySeen, succeeded, movieList, list_i,
    movieIndex, pageMovies, movieName, movieLink, subtitleLink, downloadData,
    disk, inflight, downloads, mkdirFailed,
    openPages>>

pureVars == <<arg, res, applied>>
vars == <<scriptVars, pureVars>>
scrapeVars == <<page_i, startIndex, movieCount, movies, output, browserClosed>>
listVars == <<movieList, list_i, movieIndex, pageMovies>>
itemVars == <<movieName, movieLink, subtitleLink, downloadData>>
diskVars == <<disk, inflight, downloads>>

MAX_MOVIES == IF variant = "index" THEN MaxMoviesIndex ELSE MaxMoviesChunk

\* The locals of scrapeMovies and getMoviesList at the start of a run.
RunInit ==
  /\ pc = "loop"
  /\ fault = ""
  /\ page_i = 1
  /\ startIndex = 1
  /\ movieCount = 0
  /\ movies = <<>>
  /\ moviesList = <<>>
  /\ output = NullList
  /\ browserClosed = FALSE
  /\ fetched = 0
  /\ emptySeen = FALSE
  /\ succeeded = 0
  /\ movieList = 0
  /\ list_i = 0
  /\ movieIndex = 1
  /\ pageMovies = <<>>
  /\ movieName = ""
  /\ movieLink = ""
  /\ subtitleLink = Null
  /\ downloadData = NullText
  /\ mkdirFailed = FALSE
  /\ openPages = 0

\* The first run starts with an empty staging directory.
ScriptInit ==
  /\ variant \in Variants
  /\ run = 1
  /\ RunInit
  /\ disk = [u \in AllUrls |-> NoFile]
  /\ inflight = [u \in AllUrls |-> FALSE]
  /\ downloads = [u \in AllUrls |-> 0]

Init ==
  /\ ScriptInit
  /\ arg = <<>>
  /\ res = <<>>
  /\ applied = ""

\* The errors that the scripts let through.
ListingGotoFailed == "page.goto(pageUrl) failed"
MoviesListIsNull == "TypeError: moviesList is null"
TableIsNull == "TypeError: subtitlesTable is null"
DetailGotoFailed == "newPage.goto(movieLink) failed"
DownloadDataIsNull == "TypeError: downloadData is null"
ChunksIsNull == "TypeError: subtitleChunks is null"

\* An uncaught error: the promise of scrapeMovies is rejected.
Crash(why) ==
  /\ pc' = "crashed"
  /\ fault' = why

\* -------------------------------------------------------- scrapeMovies

\* The condition of the page loop.
LoopCondition(count) == count <= MAX_MOVIES

\* getMoviesList on a page without listing elements.
EmptyPageResult == NullList

\* scrapeMovies: the loop condition holds; getMoviesList is called, loads the
\* listing page and finds n listing elements.
FetchPage ==
  /\ pc = "loop"
  /\ LoopCondition(movieCount)
  /\ \E n \in 0..MaxPageLen :
       /\ fetched' = fetched + 1
       /\ movieIndex' = startIndex
       /\ movieList' = n
       /\ list_i' = 0
       /\ pageMovies' = <<>>
       /\ IF n = 0
          THEN /\ moviesList' = EmptyPageResult
               /\ emptySeen' = TRUE
               /\ pc' = "ret"
          ELSE /\ moviesList' = moviesList
               /\ emptySeen' = emptySeen
               /\ pc' = "list"
  /\ UNCHANGED <<pureVars, mkdirFailed, openPages, succeeded, variant, run, fault, scrapeVars, itemVars, diskVars>>

\* page.goto(pageUrl) fails: nothing catches it.
FetchFault ==
  /\ pc = "loop"
  /\ LoopCondition(movieCount)
  /\ fetched' = fetched + 1
  /\ Crash(ListingGotoFailed)
  /\ UNCHANGED <<pureVars, mkdirFailed, openPages, succeeded, variant, run, scrapeVars, moviesList, emptySeen, listVars,
                 itemVars, diskVars>>

\* scrapeMovies: the loop condition fails.
LoopExit ==
  /\ pc = "loop"
  /\ ~LoopCondition(movieCount)
  /\ pc' = "close"
  /\ UNCHANGED <<pureVars, mkdirFailed, openPages, succeeded, variant, run, fault, scrapeVars, moviesList, fetched, emptySeen,
                 listVars, itemVars, diskVars>>

\* A plausible slip: the value is pushed without any test.
AfterReturnNoTest(ml) == "loop"

\* What scrapeMovies does with the value of getMoviesList: "crashed" when
\* reading .length throws, "close" on break, "loop" to go on.
AfterReturn(ml) ==
  IF ml = NullList THEN "crashed"
  ELSE IF Len(ml) = 0 THEN "close"
  ELSE "loop"

\* A plausible slip: startIndex is not advanced.
NextStartIndexKept(si, ml) == si

NextStartIndex(si, ml) == si + Len(ml)
NextMovieCount(mc, ml) == mc + Len(ml)

\* scrapeMovies: the rest of one iteration of the page loop.
Return ==
  /\ pc = "ret"
  /\ LET next == AfterReturn(moviesList)
     IN IF next = "crashed"
        THEN /\ Crash(MoviesListIsNull)
             /\ UNCHANGED <<page_i, startIndex, movieCount, movies>>
        ELSE IF next = "close"
        THEN /\ pc' = "close"
             /\ UNCHANGED <<fault, page_i, startIndex, movieCount, movies>>
        ELSE /\ movies' = movies \o moviesList
             /\ startIndex' = NextStartIndex(startIndex, moviesList)
             /\ movieCount' = NextMovieCount(movieCount, moviesList)
             /\ page_i' = page_i + 1
             /\ pc' = "loop"
             /\ UNCHANGED fault
  /\ UNCHANGED <<pureVars, mkdirFailed, openPages, succeeded, variant, run, moviesList, output, browserClosed, fetched,
                 emptySeen, listVars, itemVars, diskVars>>

\* scrapeMovies: browser.close(), then writeMoviesToCsv(movies).
Close ==
  /\ pc = "close"
  /\ browserClosed' = TRUE
  /\ inflight' = [u \in AllUrls |-> FALSE]
  /\ output' = movies
  /\ pc' = "done"
  /\ openPages' = 0
  /\ UNCHANGED <<pureVars, mkdirFailed, succeeded, variant, run, fault, page_i, startIndex, movieCount, movies,
                 moviesList, fetched, emptySeen, listVars, itemVars, disk,
                 downloads>>

\* The script is started again; the staging directory stays.
Restart ==
  /\ pc \in {"done", "crashed"}
  /\ run < MaxRuns
  /\ run' = run + 1
  /\ pc' = "loop"
  /\ fault' = ""
  /\ page_i' = 1
  /\ startIndex' = 1
  /\ movieCount' = 0
  /\ movies' = <<>>
  /\ moviesList' = <<>>
  /\ output' = NullList
  /\ browserClosed' = FALSE
  /\ fetched' = 0
  /\ emptySeen' = FALSE
  /\ succeeded' = 0
  /\ movieList' = 0
  /\ list_i' = 0
  /\ movieIndex' = 1
  /\ pageMovies' = <<>>
  /\ movieName' = ""
  /\ movieLink' = ""
  /\ subtitleLink' = Null
  /\ downloadData' = NullText
  /\ mkdirFailed' = FALSE
  /\ openPages' = 0
  /\ inflight' = [u \in AllUrls |-> FALSE]
  /\ UNCHANGED <<pureVars, variant, disk, downloads>>

\* ------------------------------------------------------- getMoviesList

\* A plausible slip: the listing loop does not test the quota.
ListGuardNoQuota(li, n, mi) ==
  IF variant = "index" THEN li <= n ELSE li < n

\* The condition of the listing loop.
ListGuard(li, n, mi) ==
  /\ IF variant = "index" THEN li <= n ELSE li < n
  /\ mi <= MAX_MOVIES

\* The next iteration of the listing loop (continue, or the end of the body).
NextItem ==
  /\ list_i' = list_i + 1
  /\ pc' = "list"
  /\ movieName' = ""
  /\ movieLink' = ""
  /\ subtitleLink' = Null
  /\ downloadData' = NullText

\* The listing loop ends: return movies.
ListReturn ==
  /\ pc = "list"
  /\ ~ListGuard(list_i, movieList, movieIndex)
  /\ moviesList' = pageMovies
  /\ pc' = "ret"
  /\ UNCHANGED <<pureVars, mkdirFailed, openPages, succeeded, variant, run, fault, scrapeVars, fetched, emptySeen, listVars,
                 itemVars, diskVars>>

\* movieList[i] is undefined (i = movieList.length): continue.
ListUndefined ==
  /\ pc = "list"
  /\ ListGuard(list_i, movieList, movieIndex)
  /\ list_i >= movieList
  /\ NextItem
  /\ UNCHANGED <<pureVars, mkdirFailed, openPages, succeeded, variant, run, fault, scrapeVars, moviesList, fetched, emptySeen,
                 movieList, movieIndex, pageMovies, diskVars>>

\* A plausible slip: the tests of the name and the link are dropped.
SkipItemNever(name, link) == FALSE

\* The skip tests on the display name and the detail link.
SkipItem(name, link) ==
  \/ variant = "part_000" /\ name = ""
  \/ link = ""

\* One listing element: its name and link are read.
ListItem ==
  /\ pc = "list"
  /\ ListGuard(list_i, movieList, movieIndex)
  /\ list_i < movieList
  /\ \E name \in Names(variant), link \in Links :
       IF SkipItem(name, link)
       THEN NextItem
       ELSE /\ movieName' = name
            /\ movieLink' = link
            /\ pc' = "resolve"
            /\ UNCHANGED <<list_i, subtitleLink, downloadData>>
  /\ UNCHANGED <<pureVars, mkdirFailed, openPages, succeeded, variant, run, fault, scrapeVars, moviesList, fetched, emptySeen,
                 movieList, movieIndex, pageMovies, diskVars>>

\* page.browser().newPage() with no newPage.close() after it: one more page
\* stays open (the count stops at MaxOpen).
LeftOpen(n) == Min({n + 1, MaxOpen})

\* The pages opened for listings that are open now: those left open and the
\* one downloadSubtitles is waiting on, which it closes after the wait.
OpenPages == openPages + (IF pc = "wait" THEN 1 ELSE 0)

\* getEnglishSubtitleLink(page, movieLink) on the detail page.
Resolve ==
  /\ pc = "resolve"
  /\ \E table \in Tables(variant) :
       IF table = NoTable
       THEN /\ Crash(TableIsNull)
            /\ UNCHANGED <<list_i, itemVars>>
       ELSE IF GetEnglishSubtitleLink(table) = Null
       THEN NextItem /\ UNCHANGED fault
       ELSE /\ subtitleLink' = GetEnglishSubtitleLink(table)
            /\ pc' = "start"
            /\ UNCHANGED <<fault, list_i, movieName, movieLink, downloadData>>
  /\ openPages' = LeftOpen(openPages)
  /\ UNCHANGED <<pureVars, mkdirFailed, succeeded, variant, run, scrapeVars, moviesList, fetched, emptySeen,
                 movieList, movieIndex, pageMovies, diskVars>>

\* newPage.goto(movieLink) fails: nothing catches it.
ResolveFault ==
  /\ pc = "resolve"
  /\ Crash(DetailGotoFailed)
  /\ openPages' = LeftOpen(openPages)
  /\ UNCHANGED <<pureVars, mkdirFailed, succeeded, variant, run, scrapeVars, moviesList, fetched, emptySeen,
                 listVars, itemVars, diskVars>>

\* ------------------------------------- startDownload, downloadSubtitles

\* A plausible slip: the existence test is dropped, every call downloads.
CacheNever(d, u) == FALSE

\* fs.existsSync(filePath)
CacheHit(d, u) == d[u] # NoFile

\* One more invocation of downloadSubtitles for u (the count stops at MaxCount).
Counted(c, u) == [c EXCEPT ![u] = Min({@ + 1, MaxCount})]

\* startDownload: fs.mkdirSync throws while the directory of the archive is
\* made (it is made on the first call for the archive); the catch of
\* startDownload logs the error and returns null.
MkdirFault ==
  /\ pc = "start"
  /\ downloads[subtitleLink] = 0
  /\ ~CacheHit(disk, subtitleLink)
  /\ mkdirFailed' = TRUE
  /\ downloadData' = NullText
  /\ pc' = "emit"
  /\ UNCHANGED <<pureVars, openPages, succeeded, variant, run, fault, scrapeVars,
                 moviesList, fetched, emptySeen, listVars, movieName, movieLink,
                 subtitleLink, diskVars>>

\* startDownload, the file exists: extractSubtitles is called on it.
StartDownloadHit ==
  /\ pc = "start"
  /\ CacheHit(disk, subtitleLink)
  /\ pc' = "hit_extract"
  /\ UNCHANGED <<pureVars, mkdirFailed, openPages, succeeded, variant, run, fault, scrapeVars, moviesList,
                 fetched, emptySeen, listVars, itemVars, diskVars>>

\* startDownload, the file existed: the extraction ends, the data is returned.
HitExtract ==
  /\ pc = "hit_extract"
  /\ downloadData' = TryExtract(disk[subtitleLink])
  /\ pc' = "emit"
  /\ UNCHANGED <<pureVars, mkdirFailed, openPages, succeeded, variant, run, fault, scrapeVars, moviesList,
                 fetched, emptySeen, listVars, movieName, movieLink, subtitleLink,
                 diskVars>>

\* startDownload, the file does not exist: downloadSubtitles opens a page,
\* goes to the URL and clicks the download button, which starts the transfer;
\* or going to the URL or the click fails and downloadSubtitles catches it and
\* returns, without closing the page.
StartDownloadMiss ==
  /\ pc = "start"
  /\ ~CacheHit(disk, subtitleLink)
  /\ downloads' = Counted(downloads, subtitleLink)
  /\ \/ /\ inflight' = [inflight EXCEPT ![subtitleLink] = TRUE]
        /\ pc' = "wait"
        /\ UNCHANGED openPages
     \/ /\ pc' = "extract2"
        /\ openPages' = LeftOpen(openPages)
        /\ UNCHANGED inflight
  /\ UNCHANGED <<pureVars, mkdirFailed, succeeded, variant, run, fault, scrapeVars, moviesList, fetched, emptySeen,
                 listVars, itemVars, disk>>

\* downloadSubtitles: waitForTimeout(10000) is over; the page is closed and
\* extractSubtitles is called.
WaitTimeout ==
  /\ pc = "wait"
  /\ pc' = "dl_extract"
  /\ UNCHANGED <<pureVars, mkdirFailed, openPages, succeeded, variant, run, fault, scrapeVars, moviesList, fetched, emptySeen,
                 listVars, itemVars, diskVars>>

\* downloadSubtitles: its extractSubtitles ends; startDownload drops the value
\* (and a rejection is caught) and calls extractSubtitles itself.
DownloadExtract ==
  /\ pc = "dl_extract"
  /\ pc' = "extract2"
  /\ UNCHANGED <<pureVars, mkdirFailed, openPages, succeeded, variant, run, fault, scrapeVars, moviesList, fetched, emptySeen,
                 listVars, itemVars, diskVars>>

\* startDownload after downloadSubtitles: extract and return the data.
StartDownloadExtract ==
  /\ pc = "extract2"
  /\ downloadData' = TryExtract(disk[subtitleLink])
  /\ pc' = "emit"
  /\ UNCHANGED <<pureVars, mkdirFailed, openPages, succeeded, variant, run, fault, scrapeVars, moviesList, fetched, emptySeen,
                 listVars, movieName, movieLink, subtitleLink, diskVars>>

\* The browser ends a transfer: the archive is written to the staging path
\* (a file that is already there is kept, the browser picks another name).
TransferCompletes ==
  /\ ~browserClosed
  /\ \E u \in Urls(variant), a \in Archives(variant) :
       /\ inflight[u]
       /\ inflight' = [inflight EXCEPT ![u] = FALSE]
       /\ disk' = [disk EXCEPT ![u] = IF @ = NoFile THEN a ELSE @]
  /\ UNCHANGED <<pureVars, mkdirFailed, openPages, succeeded, variant, run, pc, fault, scrapeVars, moviesList, fetched,
                 emptySeen, listVars, itemVars, downloads>>

\* The transfer ends without a file at the staging path.
TransferFails ==
  /\ ~browserClosed
  /\ \E u \in Urls(variant) :
       /\ inflight[u]
       /\ inflight' = [inflight EXCEPT ![u] = FALSE]
  /\ UNCHANGED <<pureVars, mkdirFailed, openPages, succeeded, variant, run, pc, fault, scrapeVars, moviesList, fetched,
                 emptySeen, listVars, itemVars, disk, downloads>>

\* ------------------------------------------------------------ records

\* !downloadData
Falsy(data) == data = NullText \/ data = <<>>

\* part_000: subtitleChunks.map(...) on the result of match; reading .map of
\* null throws.
ChunkRecords(name, text) ==
  IF MatchChunks(text) = NoMatch THEN NullList
  ELSE MovieSubtitles(name, MatchChunks(text))

\* The record of the per-listing script.
MovieRecord(id, name, link, sub, data) ==
  [id |-> id, name |-> name, link |-> link, subtitleLink |-> sub,
   subtitle |-> Normalize(data)]

\* index.js: the rest of the loop body after startDownload.
EmitIndex ==
  /\ pc = "emit"
  /\ variant = "index"
  /\ IF downloadData = NullText
     THEN /\ Crash(DownloadDataIsNull)
          /\ UNCHANGED <<list_i, movieIndex, pageMovies, itemVars, succeeded>>
     ELSE /\ pageMovies' = Append(pageMovies,
               MovieRecord(movieIndex, movieName, movieLink, subtitleLink,
                           downloadData))
          /\ movieIndex' = movieIndex + 1
          /\ succeeded' = succeeded + 1
          /\ NextItem
          /\ UNCHANGED fault
  /\ UNCHANGED <<pureVars, mkdirFailed, openPages, variant, run, scrapeVars, moviesList, fetched,
                 emptySeen, movieList, diskVars>>

\* part_000: the rest of the loop body after startDownload.
EmitChunk ==
  /\ pc = "emit"
  /\ variant = "part_000"
  /\ IF Falsy(downloadData)
     THEN /\ NextItem
          /\ UNCHANGED <<fault, movieIndex, pageMovies, succeeded>>
     ELSE IF ChunkRecords(movieName, Normalize(downloadData)) = NullList
     THEN /\ Crash(ChunksIsNull)
          /\ UNCHANGED <<list_i, movieIndex, pageMovies, itemVars, succeeded>>
     ELSE /\ pageMovies' = pageMovies \o
               ChunkRecords(movieName, Normalize(downloadData))
          /\ movieIndex' = movieIndex + 1
          /\ succeeded' = succeeded + 1
          /\ NextItem
          /\ UNCHANGED fault
  /\ UNCHANGED <<pureVars, mkdirFailed, openPages, variant, run, scrapeVars, moviesList, fetched,
                 emptySeen, movieList, diskVars>>

\* ----------------------------------------------------- specification

Next ==
  \/ FetchPage
  \/ FetchFault
  \/ LoopExit
  \/ Return
  \/ Close
  \/ Restart
  \/ ListReturn
  \/ ListUndefined
  \/ ListItem
  \/ Resolve
  \/ ResolveFault
  \/ MkdirFault
  \/ StartDownloadHit
  \/ HitExtract
  \/ StartDownloadMiss
  \/ WaitTimeout
  \/ DownloadExtract
  \/ StartDownloadExtract
  \/ TransferCompletes
  \/ TransferFails
  \/ EmitIndex
  \/ EmitChunk

Spec == Init /\ [][Next]_vars

\* ------------------------------------------- the chunker on its own

\* Bound of the model: the longest normalized text.
MaxTextLen == 206

\* Normalized texts: letters, with a letter, a space or a line separator at
\* the first position and around the window boundaries.
Alphabet == {"a", " ", "LS"}
SpecialPos == {1, ChunkSize, ChunkSize + 1, 2 * ChunkSize + 1}
TextOf(len, f) == [k \in 1..len |-> IF k \in SpecialPos THEN f[k] ELSE "a"]
ChunkInputs ==
  {TextOf(len, f) : len \in 0..MaxTextLen, f \in [SpecialPos -> Alphabet]}

InitChunk ==
  /\ ScriptInit
  /\ variant = "part_000"
  /\ arg \in ChunkInputs
  /\ res = <<>>
  /\ applied = ""

\* part_000, lines 280-294, applied to the normalized text arg.
ApplyChunk ==
  /\ applied = ""
  /\ res' = [subtitleChunks |-> MatchChunks(arg),
             movieSubtitles |-> ChunkRecords("m1", arg)]
  /\ applied' = "chunk"
  /\ UNCHANGED <<arg, scriptVars>>

NextChunk == ApplyChunk

SpecChunk == InitChunk /\ [][NextChunk]_vars

\* ------------------------------------- extractSubtitles on its own

\* Bound of the model: the longest entry list.
MaxEntries == 3

SrtBare == <<"s", "r", "t">>
SrtOnly == <<".", "s", "r", "t">>
SrtUpper == <<"m", ".", "S", "R", "T">>
EntryNames == {NfoName, SrtName, TxtName, SrtBare, SrtOnly, SrtUpper}

\* Entry lists: any names, the data of an entry tells its position.
EntryLists ==
  UNION {{[k \in 1..n |-> [entryName |-> f[k], data |-> Rep("d", k)]] :
            f \in [1..n -> EntryNames]} : n \in 0..MaxEntries}

InitExtract ==
  /\ ScriptInit
  /\ variant = "index"
  /\ arg \in EntryLists
  /\ res = <<>>
  /\ applied = ""

\* extractSubtitles on an archive whose entries are arg.
ApplyExtract ==
  /\ applied = ""
  /\ res' = ExtractSubtitles(arg)
  /\ applied' = "extract"
  /\ UNCHANGED <<arg, scriptVars>>

NextExtract == ApplyExtract

SpecExtract == InitExtract /\ [][NextExtract]_vars

\* ------------------------------- getEnglishSubtitleLink on its own

\* Bound of the model: the longest table.
MaxRows == 3

EnglishPadded == <<" ">> \o English \o <<"\n">>
EnglishLower == <<"e", "n", "g", "l", "i", "s", "h">>
EnglishUS == English \o <<" ", "(", "U", "S", ")">>
Labels == {English, EnglishPadded, EnglishLower, EnglishUS, French}

\* The href of the row at position k.
Hrefs == <<"u1", "u2", "u3", "u4">>

RowLists ==
  UNION {{[k \in 1..n |-> Row(f[k], Hrefs[k])] : f \in [1..n -> Labels]} :
           n \in 0..MaxRows}

InitResolve ==
  /\ ScriptInit
  /\ variant = "index"
  /\ arg \in RowLists
  /\ res = Null
  /\ applied = ""

\* The row loop of getEnglishSubtitleLink on a table whose rows are arg.
ApplyResolve ==
  /\ applied = ""
  /\ res' = GetEnglishSubtitleLink(arg)
  /\ applied' = "resolve"
  /\ UNCHANGED <<arg, scriptVars>>

NextResolve == ApplyResolve

SpecResolve == InitResolve /\ [][NextResolve]_vars

\* ------------------------------------- the normalization on its own

\* Bound of the model: the number of pieces of a raw text.
MaxPieces == 3

\* The two time codes and the arrow of a cue, without what is around them.
Stamp == SubSeq(Cue, 3, Len(Cue) - 1)

OpenTag == <<"<", "i", ">">>
CloseTag == <<"<", "/", "i", ">">>

\* What a raw subtitle text is made of.
Pieces ==
  {<<"1">>, <<"\n">>, Stamp, OpenTag, CloseTag, <<"<">>, <<"i", ">">>,
   <<"H", "i">>}

RECURSIVE Join(_)
Join(ps) == IF ps = <<>> THEN <<>> ELSE Head(ps) \o Join(Tail(ps))

RawTexts ==
  UNION {{Join(f) : f \in [1..n -> Pieces]} : n \in 0..MaxPieces}

InitNormalize ==
  /\ ScriptInit
  /\ variant = "part_000"
  /\ arg \in RawTexts
  /\ res = <<>>
  /\ applied = ""

\* The two replaces applied to the raw text arg.
ApplyNormalize ==
  /\ applied = ""
  /\ res' = Normalize(arg)
  /\ applied' = "normalize"
  /\ UNCHANGED <<arg, scriptVars>>

NextNormalize == ApplyNormalize

SpecNormalize == InitNormalize /\ [][NextNormalize]_vars

\* ================================================================ claims

ListingSteps == {"resolve", "start", "hit_extract", "wait", "dl_extract",
                 "extract2", "emit"}

QuotaReached == succeeded >= MAX_MOVIES

\* C1: when a listing page yields zero listing elements the run ends
\* normally: it does not end in an error, and when it has ended the browser is
\* closed and the records collected so far were handed to writeMoviesToCsv.
C1_EmptyPageEndsNormally ==
  emptySeen =>
    /\ pc # "crashed"
    /\ pc = "done" => (browserClosed /\ output = movies)

\* C2: after a listing page with zero listing elements, the run fetches no
\* further listing page and adds no record to its record set.
C2_NothingAfterEmptyPage ==
  [][(emptySeen /\ run' = run) =>
       /\ fetched' = fetched
       /\ movies' = movies
       /\ pageMovies' = pageMovies
       /\ pc' \notin ({"loop", "list"} \cup ListingSteps)]_vars

C2_Witness ==
  /\ emptySeen
  /\ pc = "crashed"
  /\ fetched >= 2
  /\ Len(movies) >= 1

\* C3: the run leaves the page loop only when the quota is reached or a page
\* had zero listing elements; a page whose listings were all skipped does not
\* end it.
C3_StopsOnlyOnQuotaOrEmptyPage ==
  pc \in {"close", "done"} => (QuotaReached \/ emptySeen)

\* C4: once the item index exceeds MAX_MOVIES no listing of the page is
\* resolved, downloaded or emitted, and no more than MAX_MOVIES listings of a
\* run contribute records.
C4_QuotaStopsPage ==
  /\ succeeded <= MAX_MOVIES
  /\ pc \in ListingSteps => movieIndex <= MAX_MOVIES

C4_Witness ==
  /\ pc = "list"
  /\ movieIndex > MAX_MOVIES
  /\ list_i < movieList
  /\ succeeded = MAX_MOVIES

\* C5: in the per-listing script the ids of the records, in output order, are
\* 1, 2, ..., k for the k listings that succeeded.
C5_IdsAreConsecutive ==
  variant = "index" =>
    /\ \A k \in 1..Len(movies) : movies[k].id = k
    /\ pc \in {"list", "ret"} \cup ListingSteps =>
         \A k \in 1..Len(pageMovies) : pageMovies[k].id = Len(movies) + k
    /\ pc = "done" => (output = movies /\ Len(output) = succeeded)

C5_Witness ==
  /\ variant = "index"
  /\ pc = "done"
  /\ fetched >= 3
  /\ Len(output) >= 3
  /\ Len(output) < fetched * MaxPageLen

\* C6: when startDownload yields its failure result, no record is emitted for
\* the listing and the run goes on with the next listing.
C6_DownloadFailureIsSkip ==
  [][(pc = "emit" /\ downloadData = NullText /\ pc' # "emit") =>
       /\ pc' = "list"
       /\ list_i' = list_i + 1
       /\ pageMovies' = pageMovies]_vars

\* C7: once the archive of a URL is stored at its staging path, the file is
\* never written again, no download of that URL is started, and startDownload
\* for that URL extracts that file.
C7_CacheHitReusesFile ==
  [][/\ \A u \in AllUrls :
          disk[u] # NoFile => (disk'[u] = disk[u] /\ downloads'[u] = downloads[u])
     /\ (pc = "start" /\ disk[subtitleLink] # NoFile /\ pc' # "start") =>
          pc' = "hit_extract"
     /\ (pc = "hit_extract" /\ pc' # "hit_extract") =>
          /\ pc' = "emit"
          /\ downloadData' = TryExtract(disk[subtitleLink])]_vars

\* The first listing of a second run finds the file of the first run.
C7_Witness ==
  /\ run = 2
  /\ pc = "hit_extract"
  /\ fetched = 1
  /\ list_i = 0
  /\ downloads[subtitleLink] = 1
  /\ disk[subtitleLink] # NoFile

\* C8: at most one download is ever made per archive filename.
C8_AtMostOneDownload ==
  \A u \in AllUrls : downloads[u] <= 1

\* C8 as amended: a download is made for an archive filename only while no
\* file is at its staging path.
C8_DownloadOnlyWhenAbsent ==
  [][(pc = "start" /\ pc' \in {"wait", "extract2"}) =>
       disk[subtitleLink] = NoFile]_vars

C8_Witness ==
  /\ pc = "wait"
  /\ downloads[subtitleLink] >= 2
  /\ disk[subtitleLink] = NoFile

\* C9: after a cache miss extractSubtitles is entered only when the complete
\* archive is at the staging path and its transfer is over.
C9_ExtractOnlyAfterComplete ==
  pc \in {"dl_extract", "extract2"} =>
    (disk[subtitleLink] # NoFile /\ ~inflight[subtitleLink])

\* ---- C10

CeilDiv(n, d) == (n + d - 1) \div d

NoLineSeparator(t) == \A k \in 1..Len(t) : Dot(t[k])

\* The k-th window of ChunkSize characters of t.
WindowOf(t, k) ==
  SubSeq(t, (k - 1) * ChunkSize + 1, Min({k * ChunkSize, Len(t)}))

RECURSIVE Concat(_)
Concat(ss) == IF Len(ss) = 0 THEN <<>> ELSE Head(ss) \o Concat(Tail(ss))

SubtitlesOf(recs) == [k \in 1..Len(recs) |-> recs[k].subtitle]

\* w neither begins nor ends with white space.
Clean(w) == Len(w) > 0 => (~IsSpace(w[1]) /\ ~IsSpace(w[Len(w)]))

\* c is w without its leading and its trailing white space.
IsTrimOf(c, w) ==
  /\ Clean(c)
  /\ \E a \in 0..(Len(w) - Len(c)) :
       /\ \A j \in 1..a : IsSpace(w[j])
       /\ \A j \in (a + Len(c) + 1)..Len(w) : IsSpace(w[j])
       /\ SubSeq(w, a + 1, a + Len(c)) = c

IsBlank(t) == \A k \in 1..Len(t) : IsSpace(t[k])

\* C11: in the per-chunk script, a listing whose subtitle text is empty or
\* white space only after normalization emits no record: the step that ends
\* its loop body goes on to the next listing and leaves the records of the
\* page as they were.
C11_BlankTextIsSkip ==
  [][(/\ variant = "part_000"
      /\ pc = "emit"
      /\ downloadData # NullText
      /\ IsBlank(Normalize(downloadData))
      /\ pc' # "emit")
     => /\ pc' = "list"
        /\ list_i' = list_i + 1
        /\ pageMovies' = pageMovies]_vars

\* The current listing is skipped: the loop goes on with the next position
\* and nothing collected so far changes.
SkipStep ==
  /\ pc' = "list"
  /\ list_i' = list_i + 1
  /\ movieIndex' = movieIndex
  /\ pageMovies' = pageMovies
  /\ movies' = movies

\* C12: getEnglishSubtitleLink raises no error of its own: once the detail
\* page is loaded it either returns a reference (the listing goes on to
\* startDownload) or returns null, whether the table is absent, has no row or
\* has no row labelled "English", and the caller skips the listing.
C12_NotFoundIsNotAnError ==
  [][(pc = "resolve" /\ pc' # "resolve" /\ fault' # DetailGotoFailed)
     => (pc' = "start" \/ SkipStep)]_vars

\* C13: a navigation fault while the detail page of a listing is loaded is
\* recovered at the listing level: the listing is skipped, the records
\* collected so far are kept and the run goes on with the next listing.
C13_NavigationFaultIsSkip ==
  [][(pc = "resolve" /\ pc' # "resolve" /\ fault' # TableIsNull)
     => (pc' = "start" \/ SkipStep)]_vars

\* C14: a failure of fs.mkdirSync in startDownload is fatal: after it the run
\* takes no further listing, fetches no further page and writes no output; it
\* ends in the error.
C14_MkdirFailureIsFatal ==
  mkdirFailed => pc \in {"emit", "crashed"}

\* The name ends in ".srt".
IsSrtName(n) ==
  /\ Len(n) >= 4
  /\ n[Len(n) - 3] = "."
  /\ n[Len(n) - 2] = "s"
  /\ n[Len(n) - 1] = "r"
  /\ n[Len(n)] = "t"

IsEnglishLabel(l) ==
  \E i \in 1..Len(l) : \E j \in i..Len(l) :
    /\ SubSeq(l, i, j) = English
    /\ \A k \in 1..(i - 1) : IsSpace(l[k])
    /\ \A k \in (j + 1)..Len(l) : IsSpace(l[k])

\* C16: for every sequence of rows getEnglishSubtitleLink gives the href of
\* the first row whose trimmed label is exactly "English", and null when there
\* is none; the rows after the first match have no part in the result, and
\* "english" or "English (US)" do not match.
C16_FirstEnglishRow ==
  applied = "resolve" =>
    LET M == {k \in 1..Len(arg) : IsEnglishLabel(arg[k].label)}
    IN /\ res = IF M = {} THEN Null ELSE arg[Min(M)].href
       /\ M # {} => res = GetEnglishSubtitleLink(SubSeq(arg, 1, Min(M)))
       /\ \A k \in 1..Len(arg) :
            arg[k].label \in {EnglishLower, EnglishUS} => k \notin M

C16_Witness ==
  /\ applied = "resolve"
  /\ Len(arg) = 3
  /\ arg[1].label = EnglishLower
  /\ arg[2].label = EnglishPadded
  /\ arg[3].label = English
  /\ res = "u2"

\* C17: once the MAX_MOVIES-th listing of the run has succeeded, no further
\* listing page is fetched.
C17_NoFetchAfterQuota ==
  [][(QuotaReached /\ run' = run) => fetched' = fetched]_vars

\* C18: in the per-chunk script the global index counts listings: between
\* pages startIndex is 1 + the number of listings that succeeded, inside a
\* page movieIndex is, and the count compared with the quota is the number
\* of listings that succeeded.
C18_IndexCountsListings ==
  variant = "part_000" =>
    /\ pc = "loop" => (startIndex = 1 + succeeded /\ movieCount = succeeded)
    /\ pc = "list" => movieIndex = 1 + succeeded

\* A step inside the processing of one page.
PageSteps == {"list"} \cup ListingSteps

\* C19: inside a page the global index and the record list of the page
\* change only in the step that ends a fully successful listing (it has a
\* name and a link, an English reference was found and its download gave a
\* text), which appends its records and advances the index by one; every
\* skip leaves both unchanged.
C19_OnlySuccessChangesIndex ==
  [][(/\ pc \in PageSteps
      /\ pc' \in PageSteps \cup {"crashed"}
      /\ (movieIndex' # movieIndex \/ pageMovies' # pageMovies))
     => /\ pc = "emit"
        /\ variant = "part_000" => movieName # ""
        /\ movieLink # ""
        /\ subtitleLink # Null
        /\ downloadData # NullText
        /\ variant = "part_000" => downloadData # <<>>
        /\ pc' = "list"
        /\ movieIndex' = movieIndex + 1
        /\ Len(pageMovies') > Len(pageMovies)
        /\ SubSeq(pageMovies', 1, Len(pageMovies)) = pageMovies]_vars

C19_Witness ==
  /\ variant = "part_000"
  /\ run = 1
  /\ fetched = 1
  /\ pc = "list"
  /\ list_i = 2
  /\ mkdirFailed
  /\ movieIndex = startIndex + 1
  /\ Len(pageMovies) >= 1

\* C20: the body of the listing loop is entered only at positions 0..n-1
\* of the n listing elements of the page, and never once the quota is
\* reached.
C20_VisitsOnlyListings ==
  (pc = "list" /\ ListGuard(list_i, movieList, movieIndex))
    => (list_i < movieList /\ succeeded < MAX_MOVIES)

\* C21: every page opened for a listing is closed before the next listing is
\* processed: whenever the listing loop is about to take a listing, and when
\* the page loop is about to fetch a page, no page opened for a listing is
\* open.
C21_PagesReleased ==
  pc \in {"list", "ret", "loop", "close"} => OpenPages = 0

\* The archives whose transfer is in progress.
Transfers == {u \in AllUrls : inflight[u]}

\* C22: the operations of a run never overlap: at most one transfer is in
\* progress and it belongs to the listing being processed; when the loop
\* takes the next listing, or the page loop the next page, the transfer of
\* every earlier listing has ended.
C22_StrictlySequential ==
  /\ Cardinality(Transfers) <= 1
  /\ pc \in ListingSteps => Transfers \subseteq {subtitleLink}
  /\ pc \in {"list", "ret", "loop", "close"} => Transfers = {}

\* C23: whatever the pages hold and whichever listings succeed, a run
\* fetches at most MAX_MOVIES + 1 listing pages: the number of pages fetched
\* only grows, by one per iteration of the page loop, and never passes
\* MAX_MOVIES + 1, so the page loop cannot go on for ever.
C23_AtMostMaxPlusOnePages ==
  /\ [](fetched <= MAX_MOVIES + 1)
  /\ [][(pc = "loop" /\ run' = run)
        => \/ (fetched' = fetched + 1 /\ pc' \in {"list", "ret", "crashed"})
           \/ (fetched' = fetched /\ pc' \in {"loop", "close"})]_vars

C23_Witness ==
  /\ fetched = MAX_MOVIES + 1
  /\ pc = "done"
  /\ succeeded = MAX_MOVIES

\* C24: whenever the page loop of scrapeMovies is at the start of an
\* iteration, the page number is 1 + the number of pages fetched and
\* startIndex is movieCount + 1; during a run the page number, startIndex
\* and movieCount never decrease.
C24_PageLoopInvariant ==
  /\ [](pc = "loop" => (page_i = fetched + 1 /\ startIndex = movieCount + 1))
  /\ [][run' = run => /\ page_i' >= page_i
                      /\ startIndex' >= startIndex
                      /\ movieCount' >= movieCount]_vars

C24_Witness ==
  /\ pc = "loop"
  /\ page_i = 3
  /\ fetched = 2
  /\ movieCount >= 2
  /\ startIndex = movieCount + 1

\* The text holds two time codes with an arrow between them.
HasStamp(t) ==
  \E p \in 1..Len(t) :
    AfterTime(t, AfterSpace(t, AfterLit(t, AfterSpace(t, AfterTime(t, p)),
      <<"-", "-", ">">>))) # 0

\* The text holds an italic open or close tag.
HasTag(t) ==
  \E p \in 1..Len(t) :
    AfterLit(t, p, OpenTag) # 0 \/ AfterLit(t, p, CloseTag) # 0

\* C25: for every raw subtitle text the normalized text holds no cue
\* timestamp and no italic open or close tag.
C25_NoMarkupLeft ==
  applied = "normalize" => (~HasStamp(res) /\ ~HasTag(res))

\* The records that follow those of seq in seq2.
Added(seq, seq2) == SubSeq(seq2, Len(seq) + 1, Len(seq2))

\* The records collected so far in the run, in output order.
Collected == movies \o (IF pc \in PageSteps THEN pageMovies ELSE <<>>)

\* C26: in the per-chunk script the step that ends a successful listing
\* appends, after the records already there, one record per chunk of the
\* listing's normalized text, in text order, with the listing's name and the
\* parts "part 1", "part 2", ..., "part n"; so in the records collected a
\* record is either a part 1 or the part after the one of the record before
\* it, of the same listing.
C26_PartsAreConsecutive ==
  /\ [](variant = "part_000" =>
          \A k \in 1..Len(Collected) :
            \/ Collected[k].part = PartLabel(1)
            \/ /\ k > 1
               /\ Collected[k].name = Collected[k - 1].name
               /\ \E j \in 1..Len(Collected) :
                    /\ Collected[k - 1].part = PartLabel(j)
                    /\ Collected[k].part = PartLabel(j + 1))
  /\ [][(variant = "part_000" /\ pc = "emit" /\ pageMovies' # pageMovies)
        => LET text == Normalize(downloadData)
               new == Added(pageMovies, pageMovies')
           IN /\ SubSeq(pageMovies', 1, Len(pageMovies)) = pageMovies
              /\ Len(new) = CeilDiv(Len(text), ChunkSize)
              /\ \A k \in 1..Len(new) :
                   /\ new[k].name = movieName
                   /\ new[k].part = PartLabel(k)
                   /\ IsTrimOf(new[k].subtitle, WindowOf(text, k))]_vars

C26_Witness ==
  /\ variant = "part_000"
  /\ pc = "list"
  /\ Len(pageMovies) = 4
  /\ pageMovies[1].part = <<"p", "a", "r", "t", " ", "1">>
  /\ pageMovies[2].part = <<"p", "a", "r", "t", " ", "2">>
  /\ pageMovies[3].part = <<"p", "a", "r", "t", " ", "3">>
  /\ pageMovies[4].part = <<"p", "a", "r", "t", " ", "1">>
  /\ Len(pageMovies[1].subtitle) = ChunkSize - 1
  /\ Len(pageMovies[2].subtitle) = ChunkSize
  /\ Len(pageMovies[3].subtitle) = 1

====
